---- MODULE Spec2Model ----
(***************************************************************************)
(* Model of src/pdf_extractor.py: chunk_text (the segmenter), the per-chunk *)
(* result produced by process_chunk_with_openai, merge_json_results (the    *)
(* merger) and the loop of main that connects them.                         *)
(*                                                                          *)
(* A Python str is a sequence of one-character strings.  Slicing and        *)
(* str.rfind follow CPython: a negative index counts from the end, and      *)
(* every index is clamped to 0..len.                                        *)
(***************************************************************************)
EXTENDS Integers, Sequences, FiniteSets, TLC

\* ---------------------------------------------------------------- bounds
MaxLen == 6
MaxSize == 4
MaxResults == 3
MaxChunks == 2

\* line 70: chunk[:100]
PreviewLen == 100

\* ------------------------------------------------------------- characters
Period == "."
Newline == "\n"
Chars == {"a", "b", Period, Newline}

Min(a, b) == IF a < b THEN a ELSE b
Max(a, b) == IF a > b THEN a ELSE b
SetMax(S) == CHOOSE x \in S : \A y \in S : y <= x

RECURSIVE StrsOfLen(_)
StrsOfLen(n) ==
  IF n = 0 THEN {<< >>}
  ELSE {Append(s, c) : s \in StrsOfLen(n - 1), c \in Chars}

Texts == UNION {StrsOfLen(n) : n \in 0..MaxLen}

\* ------------------------------------------------- Python str primitives
\* A slice index as CPython adjusts it for a sequence of length n.
PyIndex(i, n) == IF i < 0 THEN Max(i + n, 0) ELSE Min(i, n)

\* s[a:b]
PySlice(s, a, b) ==
  LET lo == PyIndex(a, Len(s))
      hi == PyIndex(b, Len(s))
  IN  IF lo >= hi THEN << >> ELSE SubSeq(s, lo + 1, hi)

\* s.rfind(c, a, b) for a one-character c: highest 0-based index in s[a:b], or -1
rfind(s, c, a, b) ==
  LET lo == PyIndex(a, Len(s))
      hi == PyIndex(b, Len(s))
      hits == {p \in lo..(hi - 1) : s[p + 1] = c}
  IN  IF hits = {} THEN -1 ELSE SetMax(hits)


\* ------------------------------------------------------------ JSON values
\* A JSON value is a record tagged with its Python type; the payload sits
\* in the field of that type and the other fields are empty.  A scalar
\* carries its text.
NoItems == [k \in {} |-> << >>]

Scalar(x) == [t |-> "scalar", s |-> x, l |-> << >>, m |-> NoItems]
List(es) == [t |-> "list", s |-> << >>, l |-> es, m |-> NoItems]
Mapping(f) == [t |-> "dict", s |-> << >>, l |-> << >>, m |-> f]

Scalars == {Scalar(<<"1">>), Scalar(<<"2">>)}
Lists == {List(<< >>)} \cup {List(<<x>>) : x \in Scalars}
             \cup {List(<<Scalar(<<"2">>), Scalar(<<"1">>)>>)}
SubKeys == {"x", "y"}
Mappings == {Mapping(f) : f \in UNION {[D -> Scalars] : D \in SUBSET SubKeys}}
Values == Scalars \cup Lists \cup Mappings

\* what json.loads or the except clause hands back for one chunk
Dict(f) == [kind |-> "dict", items |-> f]
NotDict(k) == [kind |-> k, items |-> NoItems]

Keys == {"a", "b", "error", "chunk", "chunk_preview"}

VARIABLES pc, text, chunk_size, overlap, start, chunks, cursors,
          responses, results, results0, merged, owner, idx

chunkVars == <<text, chunk_size, overlap, start, cursors>>
mergeVars == <<results0, merged, owner, idx>>
vars == <<pc, chunkVars, chunks, responses, results, mergeVars>>

\* values of the variables a specification does not use
IdleChunk ==
  /\ text = << >> /\ chunk_size = 1 /\ overlap = 0 /\ start = 0 /\ cursors = {}
IdleMerge ==
  /\ results0 = << >> /\ merged = NoItems /\ owner = [k \in Keys |-> 0] /\ idx = 0

\* --------------------------------------------------------- chunk_text
\* ChunkEnd with the end argument of rfind left out: the search for a
\* terminator runs to the end of the text
ChunkEnd_OpenSearch(s) ==
  LET end == s + chunk_size
  IN  IF end < Len(text)
      THEN LET last_period == rfind(text, Period, end - overlap, Len(text))
               last_newline == rfind(text, Newline, end - overlap, Len(text))
               break_point == Max(last_period, last_newline)
           IN  IF break_point # -1 THEN break_point + 1 ELSE end
      ELSE Len(text)

\* end of the chunk that begins at cursor s (lines 19-31)
ChunkEnd(s) ==
  LET end == s + chunk_size
  IN  IF end < Len(text)
      THEN LET last_period == rfind(text, Period, end - overlap, end)
               last_newline == rfind(text, Newline, end - overlap, end)
               break_point == Max(last_period, last_newline)
           IN  IF break_point # -1 THEN break_point + 1 ELSE end
      ELSE Len(text)

\* NextStart without the step back: the next chunk begins where this one ends
NextStart_NoOverlap(e) == e

\* cursor after the chunk ending at e (line 34)
NextStart(e) == IF e < Len(text) THEN e - overlap ELSE e

InitChunk ==
  /\ text \in Texts
  /\ chunk_size \in 0..MaxSize
  /\ overlap \in 0..chunk_size
  /\ pc = "chunk_text"
  /\ start = 0
  /\ chunks = << >>
  /\ cursors = {}
  /\ responses = << >>
  /\ results = << >>
  /\ IdleMerge

\* lines 12-16: short text is returned whole, otherwise the loop is entered
Enter ==
  /\ pc = "chunk_text"
  /\ IF Len(text) <= chunk_size
     THEN /\ chunks' = <<text>>
          /\ pc' = "returned"
     ELSE /\ chunks' = << >>
          /\ pc' = "while"
  /\ start' = 0
  /\ cursors' = {}
  /\ UNCHANGED <<text, chunk_size, overlap, responses, results, mergeVars>>

\* one iteration of the while loop, lines 17-34
LoopBody ==
  /\ pc = "while"
  /\ start < Len(text)
  /\ start \notin cursors
  /\ LET end == ChunkEnd(start)
     IN  /\ chunks' = Append(chunks, PySlice(text, start, end))
         /\ start' = NextStart(end)
  /\ cursors' = cursors \cup {start}
  /\ UNCHANGED <<pc, text, chunk_size, overlap, responses, results, mergeVars>>

\* The iteration is a function of the cursor alone (text, chunk_size and
\* overlap never change), so a cursor value held before repeats forever:
\* the loop never reaches line 36.  The unrolling stops here.
Diverge ==
  /\ pc = "while"
  /\ start < Len(text)
  /\ start \in cursors
  /\ pc' = "diverged"
  /\ UNCHANGED <<chunkVars, chunks, responses, results, mergeVars>>

\* line 17 false, line 36
Return ==
  /\ pc = "while"
  /\ start >= Len(text)
  /\ pc' = "returned"
  /\ UNCHANGED <<chunkVars, chunks, responses, results, mergeVars>>

NextChunk == Enter \/ LoopBody \/ Diverge \/ Return

SpecChunk == InitChunk /\ [][NextChunk]_vars

\* --------------------------------------------------- merge_json_results
\* Update in which the sub-keys already present win (setdefault)
Update_KeepExisting(e, v) ==
  [k \in (DOMAIN e) \cup (DOMAIN v) |-> IF k \in DOMAIN e THEN e[k] ELSE v[k]]

\* dict.update: the sub-keys of v are written over those of e
Update(e, v) ==
  [k \in (DOMAIN e) \cup (DOMAIN v) |-> IF k \in DOMAIN v THEN v[k] ELSE e[k]]

\* MergeValue whose last branch binds [value] and forgets the existing value
MergeValue_ForgetExisting(existing, value) ==
  IF value.t = "list"
  THEN IF existing.t = "list"
       THEN List(existing.l \o value.l)
       ELSE List(<<existing>> \o value.l)
  ELSE IF value.t = "dict"
  THEN IF existing.t = "dict"
       THEN Mapping([k \in (DOMAIN existing.m) \cup (DOMAIN value.m) |->
                       IF k \in DOMAIN value.m THEN value.m[k] ELSE existing.m[k]])
       ELSE value
  ELSE IF existing.t = "list"
       THEN List(Append(existing.l, value))
       ELSE List(<<value>>)

\* the value of merged[key] after lines 80-94, key already in merged
MergeValue(existing, value) ==
  IF value.t = "list"
  THEN IF existing.t = "list"
       THEN List(existing.l \o value.l)
       ELSE List(<<existing>> \o value.l)
  ELSE IF value.t = "dict"
  THEN IF existing.t = "dict"
       THEN Mapping(Update(existing.m, value.m))
       ELSE value
  ELSE IF existing.t = "list"
       THEN List(Append(existing.l, value))
       ELSE List(<<existing, value>>)

\* lines 82, 87 and 92 change the object merged[key] refers to (extend,
\* update, append); lines 84, 89 and 94 bind merged[key] to another object
InPlace(existing, value) ==
  \/ value.t = "list" /\ existing.t = "list"
  \/ value.t = "dict" /\ existing.t = "dict"
  \/ value.t = "scalar" /\ existing.t = "list"

\* The object merged[key] refers to: j > 0 when it is the object held by
\* results[j][key] (bound by line 79 or 89), 0 when merge built it.
OwnerAfter(key, items, j) ==
  IF key \notin DOMAIN items THEN owner[key]
  ELSE IF key \notin DOMAIN merged THEN j
  ELSE IF InPlace(merged[key], items[key]) THEN owner[key]
  ELSE IF items[key].t = "dict" THEN j
  ELSE 0

MergedAfter(items) ==
  [key \in (DOMAIN merged) \cup (DOMAIN items) |->
     IF key \notin DOMAIN items THEN merged[key]
     ELSE IF key \notin DOMAIN merged THEN items[key]
     ELSE MergeValue(merged[key], items[key])]

\* results as the caller sees them after the iteration: an object changed
\* in place through merged[key] is the object the owning result holds
ResultsAfter(items) ==
  [j \in DOMAIN results |->
     [results[j] EXCEPT !.items =
        [key \in DOMAIN results[j].items |->
           IF /\ key \in DOMAIN items
              /\ key \in DOMAIN merged
              /\ owner[key] = j
              /\ InPlace(merged[key], items[key])
           THEN MergeValue(merged[key], items[key])
           ELSE results[j].items[key]]]]

\* one iteration of the outer for loop, lines 76-94; the keys of one
\* result are distinct, so the inner loop treats each independently
MergeResult ==
  /\ pc = "merge"
  /\ idx < Len(results)
  /\ results[idx + 1].kind = "dict"
  /\ LET items == results[idx + 1].items
     IN  /\ merged' = MergedAfter(items)
         /\ owner' = [key \in Keys |-> OwnerAfter(key, items, idx + 1)]
         /\ results' = ResultsAfter(items)
  /\ idx' = idx + 1
  /\ UNCHANGED <<pc, chunkVars, chunks, responses, results0>>

\* line 77 on a result that is not a dict: no attribute items
MergeRaise ==
  /\ pc = "merge"
  /\ idx < Len(results)
  /\ results[idx + 1].kind # "dict"
  /\ pc' = "raised"
  /\ UNCHANGED <<chunkVars, chunks, responses, results, mergeVars>>

\* line 96
MergeReturn ==
  /\ pc = "merge"
  /\ idx = Len(results)
  /\ pc' = "merged"
  /\ UNCHANGED <<chunkVars, chunks, responses, results, mergeVars>>

RECURSIVE SeqsUpTo(_, _)
SeqsUpTo(S, n) ==
  IF n = 0 THEN {<< >>}
  ELSE LET shorter == SeqsUpTo(S, n - 1)
       IN  shorter \cup {Append(q, x) : q \in {r \in shorter : Len(r) = n - 1}, x \in S}

\* results whose values for key "a" range over every shape
DictResults ==
  {Dict(f) : f \in UNION {[D -> Values] : D \in {{}, {"a"}}}}
    \cup {Dict([k \in {"a", "b"} |-> IF k = "a" THEN v ELSE Scalar(<<"1">>)]) : v \in Scalars \cup Lists}

InitMerge ==
  /\ results \in SeqsUpTo(DictResults, MaxResults)
  /\ results0 = results
  /\ merged = NoItems
  /\ owner = [k \in Keys |-> 0]
  /\ idx = 0
  /\ pc = "merge"
  /\ chunks = << >>
  /\ responses = << >>
  /\ IdleChunk

NextMerge == MergeResult \/ MergeReturn

SpecMerge == InitMerge /\ [][NextMerge]_vars

\* ------------------------------------- process_chunk_with_openai and main
\* What one remote call can do: raise (network, authentication, rate
\* limit), or answer with a text that is not JSON, or with the JSON text of
\* an object, an array, a scalar or null.  msg is str(e) of the exception.
Responses ==
  {[kind |-> "exception", msg |-> <<"t">>, items |-> NoItems],
   [kind |-> "invalid", msg |-> <<"j">>, items |-> NoItems],
   [kind |-> "array", msg |-> << >>, items |-> NoItems],
   [kind |-> "scalar", msg |-> << >>, items |-> NoItems],
   [kind |-> "null", msg |-> << >>, items |-> NoItems]}
  \cup {[kind |-> "object", msg |-> << >>, items |-> f] :
          f \in {NoItems,
                 [k \in {"a"} |-> Scalar(<<"1">>)],
                 [k \in {"a"} |-> List(<<Scalar(<<"2">>)>>)],
                 [k \in {"a"} |-> Mapping([x \in {"x"} |-> Scalar(<<"1">>)])]}}

\* ErrorMarker without the preview of the chunk
ErrorMarker_ErrorOnly(msg, chunk) ==
  Dict([k \in {"error"} |-> Scalar(msg)])

\* line 70
ErrorMarker(msg, chunk) ==
  Dict([k \in {"error", "chunk"} |->
          IF k = "error" THEN Scalar(msg)
          ELSE Scalar(PySlice(chunk, 0, PreviewLen) \o <<".", ".", ".">>)])

\* lines 52-70
process_chunk_with_openai(r, chunk) ==
  IF r.kind \in {"exception", "invalid"} THEN ErrorMarker(r.msg, chunk)
  ELSE IF r.kind = "object" THEN Dict(r.items)
  ELSE NotDict(r.kind)

LongChunk == [p \in 1..(PreviewLen + 1) |-> "a"]
SampleChunks == {<<"a", Period>>, LongChunk}

InitMain ==
  /\ chunks \in SeqsUpTo(SampleChunks, MaxChunks) \ {<< >>}
  /\ responses = << >>
  /\ results = << >>
  /\ pc = "process"
  /\ IdleMerge
  /\ IdleChunk

\* lines 154-157, one chunk
ProcessChunk ==
  /\ pc = "process"
  /\ Len(results) < Len(chunks)
  /\ \E r \in Responses :
       /\ responses' = Append(responses, r)
       /\ results' = Append(results,
                            process_chunk_with_openai(r, chunks[Len(results) + 1]))
  /\ UNCHANGED <<pc, chunkVars, chunks, mergeVars>>

\* line 161 calls merge_json_results(results); line 74
CallMerge ==
  /\ pc = "process"
  /\ Len(results) = Len(chunks)
  /\ pc' = "merge"
  /\ results0' = results
  /\ merged' = NoItems
  /\ owner' = [k \in Keys |-> 0]
  /\ idx' = 0
  /\ UNCHANGED <<chunkVars, chunks, responses, results>>

NextMain == ProcessChunk \/ CallMerge \/ MergeResult \/ MergeRaise \/ MergeReturn

SpecMain == InitMain /\ [][NextMain]_vars

\* ================================================================ claims
Precondition == chunk_size > 0 /\ 0 <= overlap /\ overlap < chunk_size

IsTerminator(c) == c = Period \/ c = Newline

\* c1 + c2[overlap:] + ... + cn[overlap:]
RECURSIVE Reassemble(_)
Reassemble(cs) ==
  IF Len(cs) = 0 THEN << >>
  ELSE IF Len(cs) = 1 THEN cs[1]
  ELSE Reassemble(SubSeq(cs, 1, Len(cs) - 1))
         \o PySlice(cs[Len(cs)], overlap, Len(cs[Len(cs)]))

\* C1: when chunk_text returns for a text longer than chunk_size, with
\* chunk_size > 0 and 0 <= overlap < chunk_size, the first chunk followed by
\* every later chunk without its first `overlap` characters is the text.
C1_RoundTrip ==
  (pc = "returned" /\ Precondition /\ Len(text) > chunk_size)
    => Reassemble(chunks) = text

\* a run that returned three or more overlapping chunks, one of them cut
\* short at a terminator
C1_Witness ==
  /\ pc = "returned" /\ Precondition /\ Len(text) > chunk_size
  /\ overlap > 0
  /\ Len(chunks) >= 3
  /\ \E k \in 1..(Len(chunks) - 1) : Len(chunks[k]) < chunk_size

\* C2: under the preconditions the while loop reaches start >= len(text)
\* and chunk_text returns; the loop is never back at a cursor it has held.
C2_Terminates == Precondition => pc # "diverged"

\* C6: called with chunk_size <= 0 or overlap >= chunk_size on a text longer
\* than chunk_size, chunk_text stops with an error before it produces a
\* chunk, and does not loop forever.
C6_FailFast ==
  (~Precondition /\ Len(text) > chunk_size)
    => (chunks = << >> /\ pc \notin {"returned", "diverged"})

\* C9: under the preconditions no chunk is longer than chunk_size + overlap.
C9_LengthBound ==
  Precondition =>
    \A k \in DOMAIN chunks : Len(chunks[k]) <= chunk_size + overlap

\* a returned run with a hard cut of chunk_size characters and overlap > 0
C9_Witness ==
  /\ pc = "returned" /\ Precondition /\ overlap > 0
  /\ Len(chunks) >= 2
  /\ \E k \in DOMAIN chunks : Len(chunks[k]) = chunk_size

\* the characters of the text at the 0-based positions a..(b - 1)
Span(a, b) ==
  LET ps == {p \in a..(b - 1) : 0 <= p /\ p < Len(text)}
  IN  IF ps = {} THEN << >>
      ELSE SubSeq(text, (CHOOSE p \in ps : \A q \in ps : p <= q) + 1, SetMax(ps) + 1)

\* C10: a chunk begun at cursor start with start + chunk_size < len(text)
\* ends right after the last '.' or newline of the window
\* [start + chunk_size - overlap, start + chunk_size) when there is one and
\* is otherwise the chunk_size characters from start; the next cursor is
\* `overlap` before the chunk's end.
C10_BoundaryPreference ==
  [][(/\ pc = "while"
      /\ Len(chunks') = Len(chunks) + 1
      /\ Precondition
      /\ start + chunk_size < Len(text))
     => LET hard == start + chunk_size
            window == {p \in (hard - overlap)..(hard - 1) :
                         0 <= p /\ IsTerminator(text[p + 1])}
            end == IF window # {} THEN SetMax(window) + 1 ELSE hard
            chunk == chunks'[Len(chunks')]
        IN  /\ chunk = Span(start, end)
            /\ window = {} => Len(chunk) = chunk_size
            /\ start' = end - overlap]_vars

\* the values the results of rs hold for key, in order
RECURSIVE Contributions(_, _)
Contributions(rs, key) ==
  IF Len(rs) = 0 THEN << >>
  ELSE LET front == Contributions(SubSeq(rs, 1, Len(rs) - 1), key)
           last == rs[Len(rs)].items
       IN  IF key \in DOMAIN last THEN Append(front, last[key]) ELSE front

\* v's sub-keys are in the mapping f with v's values
Includes(v, f) == \A k \in DOMAIN v.m : k \in DOMAIN f /\ f[k] = v.m[k]

\* the contributed value v is still contained in m
Holds(v, m) ==
  IF v.t = "scalar"
  THEN m.t = "list" /\ \E p \in DOMAIN m.l : m.l[p] = v
  ELSE IF v.t = "list"
  THEN m.t = "list" /\ \A q \in DOMAIN v.l : \E p \in DOMAIN m.l : m.l[p] = v.l[q]
  ELSE \/ m.t = "dict" /\ Includes(v, m.m)
       \/ m.t = "list" /\ \E p \in DOMAIN m.l : m.l[p].t = "dict" /\ Includes(v, m.l[p].m)

AllHeld(key) ==
  LET vs == Contributions(results0, key)
  IN  \A j \in DOMAIN vs : Holds(vs[j], merged[key])

\* C3 as stated: when merge returns, every value contributed for a key that
\* more than one result holds is still contained in merged[key].
C3_NoDataLoss ==
  pc = "merged" =>
    \A key \in DOMAIN merged :
      Len(Contributions(results0, key)) > 1 => AllHeld(key)

\* a mapping arrives for the key after a list or a scalar, or two mappings
\* contributed for the key have a sub-key in common
MappingCollides(key) ==
  LET vs == Contributions(results0, key)
  IN  \E i \in DOMAIN vs : \E j \in DOMAIN vs :
        /\ i < j
        /\ vs[j].t = "dict"
        /\ \/ vs[i].t # "dict"
           \/ (DOMAIN vs[i].m) \cap (DOMAIN vs[j].m) # {}

\* C3 amended: when merge returns, every value contributed for a key that
\* more than one result holds is still contained in merged[key], unless a
\* mapping was contributed for the key after a list or scalar or two
\* mappings contributed for it share a sub-key.
C3_NoDataLossUnlessMappingCollides ==
  pc = "merged" =>
    \A key \in DOMAIN merged :
      (Len(Contributions(results0, key)) > 1 /\ ~MappingCollides(key))
        => AllHeld(key)

\* three results collide on a key: a mapping, then a scalar, then a list
C3_Witness ==
  /\ pc = "merged"
  /\ \E key \in DOMAIN merged :
       LET vs == Contributions(results0, key)
       IN  /\ Len(vs) = 3
           /\ vs[1].t = "dict" /\ vs[1].m # NoItems
           /\ vs[2].t = "scalar"
           /\ vs[3].t = "list" /\ vs[3].l # << >>
           /\ ~MappingCollides(key)

\* the combination rule of the claim, by the shapes of existing and incoming
Combine(existing, value) ==
  CASE value.t = "list" /\ existing.t = "list" -> List(existing.l \o value.l)
    [] value.t = "list" /\ existing.t # "list" -> List(<<existing>> \o value.l)
    [] value.t = "dict" /\ existing.t = "dict" ->
         Mapping([k \in (DOMAIN existing.m) \cup (DOMAIN value.m) |->
                    IF k \in DOMAIN value.m THEN value.m[k] ELSE existing.m[k]])
    [] value.t = "dict" /\ existing.t # "dict" -> value
    [] value.t = "scalar" /\ existing.t = "list" -> List(existing.l \o <<value>>)
    [] value.t = "scalar" /\ existing.t # "list" -> List(<<existing, value>>)

RECURSIVE FoldLeft(_)
FoldLeft(vs) ==
  IF Len(vs) = 1 THEN vs[1]
  ELSE Combine(FoldLeft(SubSeq(vs, 1, Len(vs) - 1)), vs[Len(vs)])

\* C4: when merge returns, merged has the keys of the results and maps each
\* to the left-to-right fold of the combination rule over the values
\* contributed for it; merge([]) = {}; a mapping after a scalar gives the
\* mapping alone and a scalar after a mapping gives [mapping, scalar].
C4_LeftFold ==
  pc = "merged" =>
    /\ DOMAIN merged = UNION {DOMAIN results0[j].items : j \in DOMAIN results0}
    /\ \A key \in DOMAIN merged : merged[key] = FoldLeft(Contributions(results0, key))
    /\ results0 = << >> => merged = NoItems
    /\ \A key \in DOMAIN merged :
         LET vs == Contributions(results0, key)
         IN  Len(vs) = 2 =>
               /\ (vs[1].t = "scalar" /\ vs[2].t = "dict") => merged[key] = vs[2]
               /\ (vs[1].t = "dict" /\ vs[2].t = "scalar") => merged[key] = List(vs)

\* a returned merge of three results in which a mapping met a mapping with
\* a common sub-key and a different value, then a scalar
C4_Witness ==
  /\ pc = "merged"
  /\ \E key \in DOMAIN merged :
       LET vs == Contributions(results0, key)
       IN  /\ Len(vs) = 3
           /\ vs[1].t = "dict" /\ vs[2].t = "dict" /\ vs[3].t = "scalar"
           /\ \E k \in (DOMAIN vs[1].m) \cap (DOMAIN vs[2].m) : vs[1].m[k] # vs[2].m[k]

\* C5: merge leaves every result of its input as it was at the call.
C5_InputsUnchanged ==
  pc \in {"merge", "merged"} => results = results0

Failed(r) == r.kind \in {"exception", "invalid"}

C8_MergeNeverFails ==
  /\ pc \in {"merge", "merged", "raised"} => Len(results) = Len(chunks)
  /\ \A j \in DOMAIN results : results[j].kind = "dict"
  /\ pc # "raised"
====
